---- MODULE Spec2Model ----
(***************************************************************************)
(* Lifecycle and record-flow controller of a snakeplane plugin, as built   *)
(* by PluginFactory (src/plugin_factory.py).  The host engine drives the   *)
(* plugin through the pi_* and ii_* entry points; each action below is one *)
(* entry-point call, run to completion.                                    *)
(***************************************************************************)
EXTENDS Integers, Sequences, FiniteSets, TLC

\* ------------------------------------------------------------------ bounds
MaxInterfaces == 2      \* incoming connections the host registers
MaxPush == 2            \* ii_push_record calls of a run
MaxCount == 2           \* cap of the invocation counters

Ifaces == 1..MaxInterfaces
Anchors == {"Input1", "Input2"}
Modes == {"batch", "stream", "source"}
\* The tool's config declares Input1 required or optional; Input2 is optional.
RequiredChoices == {{}, {"Input1"}}

VARIABLES
    process_data_mode,      \* mode string given to process_data
    handlers,               \* methods installed on Plugin / Interface
    update_only_mode,       \* plugin.update_only_mode (dry run)
    required_input_names,   \* plugin._state_vars.required_input_names
    phase,                  \* host position: "constructed", "registering", "flowing", "closed"
    initialized,            \* plugin.initialized
    connections,            \* anchor name of each registered interface
    ii_initialized,         \* interface.initialized
    completed,              \* interface.completed
    records,                \* interface accumulation buffer
    outputs_closed,         \* close_all_outputs has run
    nTransform,             \* calls of the user transformation
    nBuildMetadata,         \* calls of the user metadata hook
    nPushMetadata,          \* rounds of anchor.push_metadata over all output anchors
    nFlush,                 \* calls of push_all_output_records
    nUserClose,             \* calls of the user close callback
    seen,                   \* the buffers as the last transformation call saw them
    last,                   \* the last entry-point call: op, iface, ret, events
    nPushed,                \* ii_push_record calls the host made, per interface
    host_in_order,          \* no push or close was made on a completed interface
    pc                      \* position of the ii_close call in flight on each interface

cfgvars == <<process_data_mode, handlers, update_only_mode, required_input_names>>
vars == <<process_data_mode, handlers, update_only_mode, required_input_names,
          phase, initialized, connections, ii_initialized, completed, records,
          outputs_closed, nTransform, nBuildMetadata, nPushMetadata, nFlush,
          nUserClose, seen, last, nPushed, host_in_order, pc>>

\* --------------------------------------------------------- program state
\* The mutable state an entry point works on, as one value.
World ==
    [initialized |-> initialized, connections |-> connections,
     ii_initialized |-> ii_initialized, completed |-> completed,
     records |-> records, outputs_closed |-> outputs_closed,
     nTransform |-> nTransform, nBuildMetadata |-> nBuildMetadata,
     nPushMetadata |-> nPushMetadata, nFlush |-> nFlush,
     nUserClose |-> nUserClose, seen |-> seen,
     events |-> <<>>, ret |-> "None"]

Commit(w, op, iface) ==
    /\ initialized' = w.initialized
    /\ connections' = w.connections
    /\ ii_initialized' = w.ii_initialized
    /\ completed' = w.completed
    /\ records' = w.records
    /\ outputs_closed' = w.outputs_closed
    /\ nTransform' = w.nTransform
    /\ nBuildMetadata' = w.nBuildMetadata
    /\ nPushMetadata' = w.nPushMetadata
    /\ nFlush' = w.nFlush
    /\ nUserClose' = w.nUserClose
    /\ seen' = w.seen
    /\ last' = [op |-> op, iface |-> iface, ret |-> w.ret, events |-> w.events]

Event(w, e) == [w EXCEPT !.events = Append(@, e)]
Return(w, v) == [w EXCEPT !.ret = v]
Registered(w) == 1..Len(w.connections)
EmptyBuffers == [i \in Ifaces |-> <<>>]

\* ------------------------------------------------ helper_classes (AyxPlugin)
all_inputs_completed(w) == \A i \in Registered(w) : w.completed[i]

all_required_inputs_initialized(w) ==
    \A i \in Registered(w) :
        w.connections[i] \in required_input_names => w.ii_initialized[i]

clear_accumulated_records(w) == Event([w EXCEPT !.records = EmptyBuffers], "clear")

accumulate_record(w, i, r) ==
    Event([w EXCEPT !.records[i] = Append(@, r)], "accumulate")

push_all_output_records(w) ==
    Event([w EXCEPT !.nFlush = @ + 1], "push_all_output_records")

close_all_outputs(w) == Event([w EXCEPT !.outputs_closed = TRUE], "close_all_outputs")

save_interface(w, name) == [w EXCEPT !.connections = Append(@, name)]

\* anchor.push_metadata(plugin) for every output anchor
push_metadata(w) == Event([w EXCEPT !.nPushMetadata = @ + 1], "push_metadata")

\* ------------------------------------------------------- user callbacks
user_build_metadata(w) == Event([w EXCEPT !.nBuildMetadata = @ + 1], "build_metadata")

user_func(w) == Event([w EXCEPT !.nTransform = @ + 1, !.seen = w.records], "func")

user_close(w) == Event([w EXCEPT !.nUserClose = @ + 1], "user_close")

Bool(b) == IF b THEN "True" ELSE "False"

\* ------------------------------------------------- PluginFactory.__init__
DefaultHandlers ==
    [ii_push_record |-> "default", ii_close |-> "noop", pi_push_all_records |-> "noop"]

\* ------------------------------------------------ decorator_process_data
\* Faulty variant: the update-only test inverted.
build_metadata_inverted(w) ==
    IF update_only_mode THEN user_build_metadata(w) ELSE w

build_metadata(w) ==
    IF ~update_only_mode THEN user_build_metadata(w) ELSE w

batch_ii_push_record(w, i, r) == accumulate_record(w, i, r)

\* Faulty variant: fires on every close, without the all_inputs_completed test.
batch_ii_close_every_close(w) ==
    IF ~w.initialized THEN w
    ELSE push_all_output_records(push_metadata(user_func(build_metadata(w))))

\* Faulty variant: the outputs are flushed first, before the metadata hook.
batch_ii_close_flush_first(w) ==
    IF ~w.initialized THEN w
    ELSE IF all_inputs_completed(w)
         THEN push_metadata(user_func(build_metadata(push_all_output_records(w))))
         ELSE w

\* The two tests batch_ii_close makes before it fires.
batch_ii_close_test(w) == w.initialized /\ all_inputs_completed(w)

\* The node-wide sequence batch_ii_close runs once its tests passed.
batch_ii_close_fire(w) ==
    push_all_output_records(push_metadata(user_func(build_metadata(w))))

batch_ii_close(w) ==
    IF ~w.initialized THEN w
    ELSE IF all_inputs_completed(w)
         THEN batch_ii_close_fire(w)
         ELSE w

\* Faulty variant: accumulates without clearing the other buffers first.
stream_ii_push_record_no_clear(w, i, r) ==
    IF ~w.initialized THEN w
    ELSE push_all_output_records(push_metadata(user_func(build_metadata(
             accumulate_record(w, i, r)))))

\* Faulty variant: the user function runs twice in one firing.
stream_ii_push_record_func_twice(w, i, r) ==
    IF ~w.initialized THEN w
    ELSE push_all_output_records(push_metadata(user_func(user_func(build_metadata(
             accumulate_record(clear_accumulated_records(w), i, r))))))

stream_ii_push_record(w, i, r) ==
    IF ~w.initialized THEN w
    ELSE push_all_output_records(push_metadata(user_func(build_metadata(
             accumulate_record(clear_accumulated_records(w), i, r)))))

\* Faulty variant: the user function is not called.
source_pi_push_all_records_no_func(w) ==
    push_all_output_records(push_metadata(build_metadata(w)))

source_pi_push_all_records(w) ==
    push_all_output_records(push_metadata(user_func(build_metadata(w))))

\* str.lower() on the mode strings a tool author passes to process_data.
lower(s) ==
    CASE s \in {"Batch", "BATCH"} -> "batch"
      [] s \in {"Stream", "STREAM"} -> "stream"
      [] s \in {"Source", "SOURCE"} -> "source"
      [] OTHER -> s

\* Faulty variant: an unrecognized mode falls back to batch instead of raising.
decorator_process_data_default_batch(mode, h) ==
    CASE lower(mode) = "stream" ->
             [handlers |-> [h EXCEPT !.ii_push_record = "stream"], ret |-> "None"]
      [] lower(mode) = "source" ->
             [handlers |-> [h EXCEPT !.pi_push_all_records = "source"], ret |-> "None"]
      [] OTHER ->
             [handlers |-> [h EXCEPT !.ii_push_record = "batch", !.ii_close = "batch"],
              ret |-> "None"]

\* process_data(mode)(func) on a factory holding handlers h: the handlers it
\* leaves installed, and "raise" for the ValueError of the else branch.
decorator_process_data(mode, h) ==
    CASE lower(mode) = "batch" ->
             [handlers |-> [h EXCEPT !.ii_push_record = "batch", !.ii_close = "batch"],
              ret |-> "None"]
      [] lower(mode) = "stream" ->
             [handlers |-> [h EXCEPT !.ii_push_record = "stream"], ret |-> "None"]
      [] lower(mode) = "source" ->
             [handlers |-> [h EXCEPT !.pi_push_all_records = "source"], ret |-> "None"]
      [] OTHER -> [handlers |-> h, ret |-> "raise"]

\* The function each build_* call captured (func of the wrapper's closure).
ii_push_record_func(w, i, r) ==
    CASE handlers.ii_push_record = "batch" -> batch_ii_push_record(w, i, r)
      [] handlers.ii_push_record = "stream" -> stream_ii_push_record(w, i, r)
      [] OTHER -> w

ii_close_func(w) ==
    IF handlers.ii_close = "batch" THEN batch_ii_close(w) ELSE w

pi_push_all_records_func(w) ==
    IF handlers.pi_push_all_records = "source" THEN source_pi_push_all_records(w) ELSE w

\* ---------------------------------------------------------- entry points
\* The callback build_pi_init wrapped: the noop of __init__, which returns None,
\* or the function the tool author registered, which returns val.
noop(w) == Return(Event(w, "noop"), "None")

user_init(w, val) == Return(Event(w, "user_init"), Bool(val))

\* The truth value Python gives to True, False and None.
truthy(v) == v = "True"

\* Faulty variant: the plugin counts as initialized whatever the callback returned.
wrap_pi_init_always_initialized(w, config_ok, func, val) ==
    IF ~config_ok THEN Return(w, "raise")
    ELSE LET w1 == IF func = "noop" THEN noop(w) ELSE user_init(w, val) IN
         [w1 EXCEPT !.initialized = TRUE]

\* plugin.initialized is only ever read through "not plugin.initialized"; the
\* model keeps the truth value of the object stored in it.
wrap_pi_init(w, config_ok, func, val) ==
    IF ~config_ok THEN Return(w, "raise")
    ELSE LET w1 == IF func = "noop" THEN noop(w) ELSE user_init(w, val) IN
         [w1 EXCEPT !.initialized = truthy(w1.ret)]

wrap_pi_add_incoming_connection(w, name) == Return(save_interface(w, name), "interface")

\* Faulty variant: required inputs do not stop the call.
wrap_push_all_records_no_raise(w) ==
    IF update_only_mode THEN Return(w, "True")
    ELSE Return(pi_push_all_records_func(w), "True")

wrap_push_all_records(w) ==
    IF update_only_mode THEN Return(w, "True")
    ELSE IF Cardinality(required_input_names) = 0
         THEN Return(pi_push_all_records_func(w), "True")
         ELSE Return(Event(w, "log_error"), "raise")

\* Faulty variant: closes without the all_inputs_completed test.
wrap_pi_close_unconditional(w) == close_all_outputs(user_close(w))

wrap_pi_close(w) ==
    IF all_inputs_completed(w) THEN close_all_outputs(user_close(w)) ELSE w

\* Faulty variant: the update-only trigger does not wait for the required inputs.
wrap_ii_init_no_required_check(w, i, init_success) ==
    LET w1 == Event([w EXCEPT !.ii_initialized[i] = TRUE], "ii_init_hook") IN
    IF ~init_success
    THEN Return([w1 EXCEPT !.initialized = FALSE, !.ii_initialized[i] = FALSE], "False")
    ELSE IF update_only_mode
         THEN Return(push_metadata(user_build_metadata(w1)), "True")
         ELSE Return(w1, "True")

\* Faulty variant: a failed interface init leaves plugin.initialized alone.
wrap_ii_init_keeps_plugin(w, i, init_success) ==
    LET w1 == Event([w EXCEPT !.ii_initialized[i] = TRUE], "ii_init_hook") IN
    IF ~init_success
    THEN Return([w1 EXCEPT !.ii_initialized[i] = FALSE], "False")
    ELSE IF update_only_mode /\ all_required_inputs_initialized(w1)
         THEN Return(push_metadata(user_build_metadata(w1)), "True")
         ELSE Return(w1, "True")

wrap_ii_init(w, i, init_success) ==
    LET w1 == Event([w EXCEPT !.ii_initialized[i] = TRUE], "ii_init_hook") IN
    IF ~init_success
    THEN Return([w1 EXCEPT !.initialized = FALSE, !.ii_initialized[i] = FALSE], "False")
    ELSE IF update_only_mode /\ all_required_inputs_initialized(w1)
         THEN Return(push_metadata(user_build_metadata(w1)), "True")
         ELSE Return(w1, "True")

\* Faulty variant: the update-only test is missing.
wrap_ii_push_record_no_dry_run_check(w, i, r) ==
    IF ~w.initialized THEN Return(w, "False")
    ELSE Return(ii_push_record_func(w, i, r), "True")

\* Faulty variant: the plugin.initialized test is missing.
wrap_ii_push_record_no_init_check(w, i, r) ==
    IF update_only_mode THEN Return(w, "False")
    ELSE Return(ii_push_record_func(w, i, r), "True")

wrap_ii_push_record(w, i, r) ==
    IF ~w.initialized \/ update_only_mode THEN Return(w, "False")
    ELSE Return(ii_push_record_func(w, i, r), "True")

\* Faulty variant: an uninitialized plugin returns before completed is set.
wrap_ii_close_skip_uninitialized(w, i) ==
    IF update_only_mode \/ ~w.initialized THEN w
    ELSE ii_close_func([w EXCEPT !.completed[i] = TRUE])

\* The assignment wrap_ii_close makes before it calls the close handler.
wrap_ii_close_set_completed(w, i) == [w EXCEPT !.completed[i] = TRUE]

\* Faulty variant: the update-only return is missing.
wrap_ii_close_no_dry_run_check(w, i) ==
    ii_close_func(wrap_ii_close_set_completed(w, i))

wrap_ii_close(w, i) ==
    IF update_only_mode THEN w
    ELSE ii_close_func(wrap_ii_close_set_completed(w, i))

\* ------------------------------------------------------------------ init
\* A fresh plugin of a factory, before the host's first call.
Constructed ==
    /\ update_only_mode \in BOOLEAN
    /\ required_input_names \in RequiredChoices
    /\ phase = "constructed"
    /\ initialized = FALSE
    /\ connections = <<>>
    /\ ii_initialized = [i \in Ifaces |-> FALSE]
    /\ completed = [i \in Ifaces |-> FALSE]
    /\ records = EmptyBuffers
    /\ outputs_closed = FALSE
    /\ nTransform = 0
    /\ nBuildMetadata = 0
    /\ nPushMetadata = 0
    /\ nFlush = 0
    /\ nUserClose = 0
    /\ seen = EmptyBuffers
    /\ last = [op |-> "none", iface |-> 0, ret |-> "None", events |-> <<>>]
    /\ nPushed = [i \in Ifaces |-> 0]
    /\ host_in_order = TRUE
    /\ pc = [i \in Ifaces |-> "idle"]

\* The tool author registered one process_data function, in one of the modes.
Init ==
    /\ process_data_mode \in Modes
    /\ handlers = decorator_process_data(process_data_mode, DefaultHandlers).handlers
    /\ Constructed

\* --------------------------------------------------------------- actions
\* The k-th record the host pushes on interface i.
Rec(i, k) == <<i, k>>

\* The records the host pushed on interface i so far, in push order.
PushedOn(i) == [k \in 1..nPushed[i] |-> Rec(i, k)]

RECURSIVE SumPushed(_)
SumPushed(n) == IF n = 0 THEN 0 ELSE nPushed[n] + SumPushed(n - 1)

\* The callback the factory wrapped (the noop of __init__ or a registered
\* function) is fixed at construction and read by pi_init alone; it is drawn here.
PiInit ==
    /\ phase = "constructed"
    /\ \E config_ok \in BOOLEAN, func \in {"noop", "user"}, val \in BOOLEAN :
           Commit(wrap_pi_init(World, config_ok, func, val), "pi_init", 0)
    /\ phase' = "registering"
    /\ UNCHANGED <<cfgvars, pc, nPushed, host_in_order>>

\* The host registers the connections of Input1 before those of Input2, so
\* every multiset of connections is registered in one order only.
PiAddIncomingConnection ==
    /\ phase = "registering"
    /\ Len(connections) < MaxInterfaces
    /\ \E name \in Anchors :
           /\ name = "Input1" => \A k \in 1..Len(connections) : connections[k] = "Input1"
           /\ Commit(wrap_pi_add_incoming_connection(World, name), "pi_add_incoming_connection", 0)
    /\ UNCHANGED <<cfgvars, pc, phase, nPushed, host_in_order>>

IiInit ==
    /\ phase \in {"registering", "flowing"}
    /\ nBuildMetadata < MaxCount
    /\ \E i \in Registered(World), init_success \in BOOLEAN :
           Commit(wrap_ii_init(World, i, init_success), "ii_init", i)
    /\ phase' = "flowing"
    /\ UNCHANGED <<cfgvars, pc, nPushed, host_in_order>>

IiPushRecord ==
    /\ phase \in {"registering", "flowing"}
    /\ SumPushed(MaxInterfaces) < MaxPush
    /\ \E i \in Registered(World) :
           /\ Commit(wrap_ii_push_record(World, i, Rec(i, nPushed[i] + 1)), "ii_push_record", i)
           /\ nPushed' = [nPushed EXCEPT ![i] = @ + 1]
           /\ host_in_order' = (host_in_order /\ ~completed[i])
    /\ phase' = "flowing"
    /\ UNCHANGED <<cfgvars, pc>>

IiClose ==
    /\ phase \in {"registering", "flowing"}
    /\ nTransform < MaxCount
    /\ \E i \in Registered(World) :
           /\ Commit(wrap_ii_close(World, i), "ii_close", i)
           /\ host_in_order' = (host_in_order /\ ~completed[i])
    /\ phase' = "flowing"
    /\ UNCHANGED <<cfgvars, pc, nPushed>>

PiPushAllRecords ==
    /\ phase \in {"registering", "flowing"}
    /\ nTransform < MaxCount
    /\ Commit(wrap_push_all_records(World), "pi_push_all_records", 0)
    /\ phase' = "flowing"
    /\ UNCHANGED <<cfgvars, pc, nPushed, host_in_order>>

\* pi_close is the final teardown: the host makes no call after it.
PiClose ==
    /\ phase \in {"registering", "flowing"}
    /\ Commit(wrap_pi_close(World), "pi_close", 0)
    /\ phase' = "closed"
    /\ UNCHANGED <<cfgvars, pc, nPushed, host_in_order>>

Next ==
    \/ PiInit
    \/ PiAddIncomingConnection
    \/ IiInit
    \/ IiPushRecord
    \/ IiClose
    \/ PiPushAllRecords
    \/ PiClose

Spec == Init /\ [][Next]_vars

\* ------------------------------------------- the factory, before any run
\* Mode strings a tool author may pass to process_data.
ModeStrings ==
    {"batch", "Batch", "BATCH", "stream", "Stream", "STREAM",
     "source", "Source", "SOURCE", "table", "batches", ""}

\* A factory on which process_data has not been called yet.
InitFactory ==
    /\ process_data_mode = "unset"
    /\ handlers = DefaultHandlers
    /\ Constructed

\* One @factory.process_data(mode=...) decoration of a user function.
ProcessData ==
    /\ phase = "constructed"
    /\ \E mode \in ModeStrings :
           LET r == decorator_process_data(mode, handlers) IN
           /\ process_data_mode' = mode
           /\ handlers' = r.handlers
           /\ last' = [op |-> "process_data", iface |-> 0, ret |-> r.ret, events |-> <<>>]
    /\ UNCHANGED <<update_only_mode, required_input_names, phase, initialized,
                   connections, ii_initialized, completed, records, outputs_closed,
                   nTransform, nBuildMetadata, nPushMetadata, nFlush, nUserClose,
                   seen, nPushed, host_in_order, pc>>

NextFactory == ProcessData

SpecFactory == InitFactory /\ [][NextFactory]_vars

\* ------------------------------- batch closes delivered on host threads
\* The host delivers the ii_close of each interface on a thread of its own, one
\* close per interface; the plugin takes no lock, so the statements of two
\* closes interleave.  pc[i] is the statement the close of interface i is at.
InitConc ==
    /\ process_data_mode = "batch"
    /\ handlers = decorator_process_data(process_data_mode, DefaultHandlers).handlers
    /\ Constructed
    /\ ~update_only_mode

\* wrap_ii_close up to the call of the close handler.
CloseSetCompleted(i) ==
    /\ phase \in {"registering", "flowing"}
    /\ i \in Registered(World)
    /\ pc[i] = "idle"
    /\ Commit(wrap_ii_close_set_completed(World, i), "ii_close", i)
    /\ pc' = [pc EXCEPT ![i] = "test"]
    /\ phase' = "flowing"
    /\ UNCHANGED <<cfgvars, nPushed, host_in_order>>

\* batch_ii_close reads plugin.initialized and all_inputs_completed().
CloseTest(i) ==
    /\ pc[i] = "test"
    /\ Commit(World, "ii_close", i)
    /\ pc' = [pc EXCEPT ![i] = IF batch_ii_close_test(World) THEN "fire" ELSE "done"]
    /\ UNCHANGED <<cfgvars, phase, nPushed, host_in_order>>

\* batch_ii_close runs the node-wide sequence and returns.
CloseFire(i) ==
    /\ pc[i] = "fire"
    /\ Commit(batch_ii_close_fire(World), "ii_close", i)
    /\ pc' = [pc EXCEPT ![i] = "done"]
    /\ UNCHANGED <<cfgvars, phase, nPushed, host_in_order>>

NextConc ==
    \/ PiInit
    \/ PiAddIncomingConnection
    \/ IiInit
    \/ IiPushRecord
    \/ \E i \in Ifaces : CloseSetCompleted(i)
    \/ \E i \in Ifaces : CloseTest(i)
    \/ \E i \in Ifaces : CloseFire(i)

SpecConc == InitConc /\ [][NextConc]_vars

\* ------------------------------- stream pushes delivered on host threads
\* The host delivers the ii_push_record calls of each interface on a thread of
\* its own; the plugin takes no lock, so the statements of two pushes
\* interleave.  pc[i] is the statement the push on interface i is at, and
\* Rec(i, nPushed[i]) is the record of that push.
InitStream ==
    /\ process_data_mode = "stream"
    /\ handlers = decorator_process_data(process_data_mode, DefaultHandlers).handlers
    /\ Constructed
    /\ ~update_only_mode

\* wrap_ii_push_record and stream_ii_push_record test plugin.initialized; a
\* rejected push returns False at once.
StreamPushBegin(i) ==
    /\ phase \in {"registering", "flowing"}
    /\ i \in Registered(World)
    /\ pc[i] = "idle"
    /\ SumPushed(MaxInterfaces) < MaxPush
    /\ IF ~initialized \/ update_only_mode
       THEN /\ Commit(wrap_ii_push_record(World, i, Rec(i, nPushed[i] + 1)),
                      "ii_push_record", i)
            /\ pc' = pc
       ELSE /\ Commit(World, "ii_push_record", i)
            /\ pc' = [pc EXCEPT ![i] = "clear"]
    /\ nPushed' = [nPushed EXCEPT ![i] = @ + 1]
    /\ phase' = "flowing"
    /\ UNCHANGED <<cfgvars, host_in_order>>

\* plugin.clear_accumulated_records()
StreamPushClear(i) ==
    /\ pc[i] = "clear"
    /\ Commit(clear_accumulated_records(World), "ii_push_record", i)
    /\ pc' = [pc EXCEPT ![i] = "accumulate"]
    /\ UNCHANGED <<cfgvars, phase, nPushed, host_in_order>>

\* current_interface.accumulate_record(in_record)
StreamPushAccumulate(i) ==
    /\ pc[i] = "accumulate"
    /\ Commit(accumulate_record(World, i, Rec(i, nPushed[i])), "ii_push_record", i)
    /\ pc' = [pc EXCEPT ![i] = "fire"]
    /\ UNCHANGED <<cfgvars, phase, nPushed, host_in_order>>

\* build_metadata(plugin); func(...)
StreamPushFire(i) ==
    /\ pc[i] = "fire"
    /\ Commit(user_func(build_metadata(World)), "ii_push_record", i)
    /\ pc' = [pc EXCEPT ![i] = "flush"]
    /\ UNCHANGED <<cfgvars, phase, nPushed, host_in_order>>

\* push_metadata on every anchor, push_all_output_records, return True
StreamPushFlush(i) ==
    /\ pc[i] = "flush"
    /\ Commit(Return(push_all_output_records(push_metadata(World)), "True"),
              "ii_push_record", i)
    /\ pc' = [pc EXCEPT ![i] = "idle"]
    /\ UNCHANGED <<cfgvars, phase, nPushed, host_in_order>>

NextStream ==
    \/ PiInit
    \/ PiAddIncomingConnection
    \/ IiInit
    \/ \E i \in Ifaces : StreamPushBegin(i)
    \/ \E i \in Ifaces : StreamPushClear(i)
    \/ \E i \in Ifaces : StreamPushAccumulate(i)
    \/ \E i \in Ifaces : StreamPushFire(i)
    \/ \E i \in Ifaces : StreamPushFlush(i)

SpecStream == InitStream /\ [][NextStream]_vars

TypeOK ==
    /\ process_data_mode \in Modes
    /\ phase \in {"constructed", "registering", "flowing", "closed"}
    /\ initialized \in BOOLEAN
    /\ Len(connections) <= MaxInterfaces
    /\ nTransform \in Nat

\* ---------------------------------------------------------------- claims
EveryRegisteredCompleted == \A i \in 1..Len(connections) : completed[i]

EveryRequiredInitialized ==
    \A i \in 1..Len(connections) :
        connections[i] \in required_input_names => ii_initialized[i]

HasEvent(e) == \E k \in 1..Len(last.events) : last.events[k] = e

Firing == <<"build_metadata", "func", "push_metadata", "push_all_output_records">>

ProgramState ==
    <<initialized, connections, ii_initialized, completed, records, outputs_closed,
      nTransform, nBuildMetadata, nPushMetadata, nFlush, nUserClose, seen>>

\* C1: batch mode, normal run, plugin initialized (node init and every interface
\* init succeeded), every interface closed once after its last push: the user
\* transformation has run exactly once if every registered interface is completed
\* and not at all before that, and it saw in each interface's buffer exactly the
\* records pushed on that interface, in push order.
C1_BatchTransformsOnceOnFullBuffers ==
    (process_data_mode = "batch" /\ ~update_only_mode /\ initialized /\ host_in_order) =>
        /\ nTransform = IF connections # <<>> /\ EveryRegisteredCompleted THEN 1 ELSE 0
        /\ nTransform = 1 => /\ \A i \in Ifaces : seen[i] = PushedOn(i)
                             /\ records = seen

C1_Witness ==
    /\ process_data_mode = "batch" /\ ~update_only_mode /\ initialized /\ host_in_order
    /\ Len(connections) = 2 /\ nPushed[1] = 1 /\ nPushed[2] = 1
    /\ nTransform = 1 /\ seen[1] = <<Rec(1, 1)>> /\ seen[2] = <<Rec(2, 1)>>

\* C2: stream mode: every step that runs the user transformation is a push of a
\* record r on an interface I, and the transformation sees exactly one record in
\* all the buffers of the node: r, held by I.
C2_StreamSingleResident ==
    [][(process_data_mode = "stream" /\ nTransform' # nTransform) =>
          /\ last'.op = "ii_push_record"
          /\ nPushed'[last'.iface] = nPushed[last'.iface] + 1
          /\ seen' = [EmptyBuffers EXCEPT
                         ![last'.iface] = <<Rec(last'.iface, nPushed'[last'.iface])>>]]_vars

C2_Witness ==
    /\ process_data_mode = "stream" /\ nTransform = 2
    /\ nPushed[1] = 1 /\ nPushed[2] = 1
    /\ last.iface = 2 /\ seen[1] = <<>> /\ seen[2] = <<Rec(2, 1)>>

C4_DryRunNeverTransforms ==
    update_only_mode =>
        /\ nTransform = 0
        /\ nFlush = 0
        /\ last.op = "pi_push_all_records" => last.ret = "True"
        /\ last.op = "ii_push_record" => last.ret = "False"

C4_Witness ==
    /\ update_only_mode /\ process_data_mode = "stream" /\ initialized
    /\ last.op = "ii_push_record" /\ last.ret = "False" /\ nPushed[1] = 2

C6_PushAllWithRequiredRaises ==
    (required_input_names # {} /\ initialized /\ last.op = "pi_push_all_records") =>
        last.ret = "raise"

\* C6 amended: in a run that is not update-only, pi_push_all_records with required
\* inputs logs the error and raises, and calls no user function.
C6_PushAllWithRequiredRaisesNormal ==
    (~update_only_mode /\ required_input_names # {} /\ last.op = "pi_push_all_records") =>
        last.ret = "raise" /\ last.events = <<"log_error">>

C6_Witness ==
    /\ ~update_only_mode /\ process_data_mode = "source" /\ initialized
    /\ required_input_names = {"Input1"}
    /\ last.op = "pi_push_all_records" /\ last.ret = "raise" /\ nTransform = 0

\* C7: an ii_init whose hook returns False leaves that interface and the plugin
\* uninitialized; an uninitialized plugin stays uninitialized, and every
\* ii_push_record on it returns False, accumulates nothing and transforms nothing.
C7_InitFailureVetoesPushes ==
    [][/\ (last'.op = "ii_init" /\ last'.ret = "False") =>
              (~initialized' /\ ~ii_initialized'[last'.iface])
       /\ (phase # "constructed" /\ ~initialized) =>
              /\ ~initialized'
              /\ last'.op = "ii_push_record" =>
                     (last'.ret = "False" /\ records' = records
                          /\ nTransform' = nTransform)]_vars

C7_Witness ==
    /\ ~update_only_mode /\ process_data_mode = "stream"
    /\ nTransform = 1 /\ ~initialized
    /\ last.op = "ii_push_record" /\ last.ret = "False"

\* C8: normal run, plugin uninitialized: ii_close marks the interface completed
\* and runs neither transformation nor flush, and pi_close, once every registered
\* interface is completed, runs the user close callback and closes all outputs.
C8_FailedInitStillShutsDown ==
    (~update_only_mode /\ ~initialized /\ phase # "constructed") =>
        /\ last.op = "ii_close" => (completed[last.iface] /\ last.events = <<>>)
        /\ (last.op = "pi_close" /\ EveryRegisteredCompleted) =>
               (outputs_closed /\ last.events = <<"user_close", "close_all_outputs">>)

C8_Witness ==
    /\ ~update_only_mode /\ process_data_mode = "batch" /\ ~initialized
    /\ Len(connections) = 2 /\ last.op = "pi_close" /\ outputs_closed
    /\ nTransform = 0

\* C9: source mode, normal run, no required input: every call of
\* pi_push_all_records runs the user function exactly once and returns True, and
\* no other call runs it.
C9_SourcePushAllTransformsOnce ==
    [][(process_data_mode = "source" /\ ~update_only_mode /\ required_input_names = {}) =>
          IF last'.op = "pi_push_all_records"
          THEN nTransform' = nTransform + 1 /\ last'.ret = "True" /\ last'.events = Firing
          ELSE nTransform' = nTransform]_vars

C9_Witness ==
    /\ process_data_mode = "source" /\ ~update_only_mode /\ required_input_names = {}
    /\ last.op = "pi_push_all_records" /\ last.ret = "True" /\ nTransform = 1

\* C10: pi_close runs the user close callback and closes all outputs if and only
\* if every registered interface has completed = TRUE at that call; otherwise it
\* changes nothing.
C10_NodeCloseIffAllCompleted ==
    [][(phase # "closed" /\ phase' = "closed") =>
          IF EveryRegisteredCompleted
          THEN /\ nUserClose' = nUserClose + 1 /\ outputs_closed'
               /\ last'.events = <<"user_close", "close_all_outputs">>
          ELSE UNCHANGED ProgramState /\ last'.events = <<>>]_vars

C10_Witness ==
    /\ phase = "closed" /\ Len(connections) = 2
    /\ completed[1] /\ ~completed[2] /\ ~outputs_closed /\ nUserClose = 0

\* C11 as stated: a pi_init whose configuration cannot be parsed (the user init
\* callback was not reached) does not raise: it returns failure and leaves the
\* plugin uninitialized.
C11_BadConfigReturnsFailure ==
    (last.op = "pi_init" /\ ~HasEvent("user_init") /\ ~HasEvent("noop")) =>
        (last.ret = "False" /\ ~initialized)

\* What the active strategy's ii_push_record does on one delegation.
StrategyEvents ==
    CASE handlers.ii_push_record = "batch" -> <<"accumulate">>
      [] handlers.ii_push_record = "stream" -> <<"clear", "accumulate">> \o Firing
      [] OTHER -> <<>>

\* C12: an ii_push_record on a plugin that is not initialized or is in
\* update-only mode returns False and changes nothing (no buffer, flag, counter
\* or output state; neither the strategy nor the user transformation runs); in
\* every other state it delegates to the active strategy exactly once and
\* returns True.
C12_PushRecordFrame ==
    [][(nPushed' # nPushed) =>
          IF ~initialized \/ update_only_mode
          THEN last'.ret = "False" /\ last'.events = <<>> /\ UNCHANGED ProgramState
          ELSE last'.ret = "True" /\ last'.events = StrategyEvents]_vars

C12_Witness ==
    /\ process_data_mode = "batch" /\ ~update_only_mode /\ ~initialized
    /\ last.op = "ii_push_record" /\ last.ret = "False"
    /\ nPushed[1] = 2 /\ records = EmptyBuffers

\* C14: stream mode, normal run: the user transformation runs once in every
\* ii_push_record call that returns True and in no other call, so the number of
\* transformation calls equals the number of accepted pushes; ii_close and
\* pi_close add none.
C14_StreamTransformPerAcceptedPush ==
    [][(process_data_mode = "stream" /\ ~update_only_mode) =>
          nTransform' = nTransform +
              (IF nPushed' # nPushed /\ last'.ret = "True" THEN 1 ELSE 0)]_vars

C14_Witness ==
    /\ process_data_mode = "stream" /\ ~update_only_mode /\ initialized
    /\ phase = "closed" /\ completed[1] /\ nPushed[1] = 2
    /\ nTransform = 2 /\ nUserClose = 1

\* C16: normal run, any mode: a call that fires the strategy does, in this order
\* and once each, the metadata hook, the user transformation, the metadata push
\* to the output anchors and the output flush (in stream mode after the buffer
\* clear and the accumulation); so the outputs were never flushed more often than
\* the hook has run and the metadata has been pushed.
C16_FiringOrder ==
    ~update_only_mode =>
        /\ (\E k \in 1..Len(Firing) : HasEvent(Firing[k])) =>
               last.events \in {Firing, <<"clear", "accumulate">> \o Firing}
        /\ nFlush = nPushMetadata /\ nFlush = nBuildMetadata /\ nFlush = nTransform

C16_Witness ==
    /\ process_data_mode = "batch" /\ ~update_only_mode /\ Len(connections) = 2
    /\ last.op = "ii_close" /\ last.events = Firing
    /\ nBuildMetadata = 1 /\ nPushMetadata = 1 /\ nFlush = 1

\* C17 as stated: while the plugin is not initialized no entry point runs the
\* user transformation or the metadata hook, or pushes metadata, in any mode.
C17_UninitializedRunsNothing ==
    ~initialized =>
        ~(HasEvent("func") \/ HasEvent("build_metadata") \/ HasEvent("push_metadata"))

\* C18 as stated, in the case it names: after the init hook of an interface
\* returned False, a repeated ii_init of the same interface does not set the
\* interface's initialized flag back to TRUE.
C18_FailedInterfaceStaysFailed ==
    [][(last.op = "ii_init" /\ last.ret = "False"
          /\ last'.op = "ii_init" /\ last'.iface = last.iface) =>
             ~ii_initialized'[last.iface]]_vars

\* C19 as stated: an ii_close on an interface that is already completed does not
\* run the close handler again: in batch mode it runs neither the user
\* transformation nor the metadata push nor the flush a second time.
C19_SecondCloseRunsNothing ==
    [][(~update_only_mode /\ last'.op = "ii_close" /\ completed[last'.iface]) =>
          /\ nTransform' = nTransform
          /\ nPushMetadata' = nPushMetadata
          /\ nFlush' = nFlush]_vars

\* C13 as stated: after any sequence of process_data registrations on one
\* factory, the installed ii_push_record, ii_close and pi_push_all_records
\* handlers are those of the most recently registered mode alone, as a fresh
\* factory would hold them after that one registration.
C13_OnlyLatestStrategyInstalled ==
    (last.op = "process_data" /\ last.ret # "raise") =>
        handlers = decorator_process_data(process_data_mode, DefaultHandlers).handlers

\* C15: a process_data registration whose mode string is not batch, stream or
\* source in any letter case raises at the registration, before the host's first
\* call, and leaves every installed handler as it was; a registration with one
\* of the three modes, in any letter case, does not raise.
C15_UnknownModeRaisesAtRegistration ==
    [][(last'.op = "process_data") =>
          IF lower(process_data_mode') \in Modes
          THEN last'.ret = "None"
          ELSE last'.ret = "raise" /\ handlers' = handlers /\ phase' = "constructed"]_vars

C15_Witness ==
    /\ last.op = "process_data" /\ last.ret = "raise" /\ process_data_mode = "table"
    /\ handlers.ii_push_record = "stream" /\ handlers.ii_close = "noop"
    /\ phase = "constructed"

\* C20 as stated: batch mode, the ii_close calls of the interfaces delivered
\* concurrently, one per interface, their statements interleaved: the user
\* transformation and the output flush run at most once in the run, and exactly
\* once when every close has returned on an initialized plugin.
C20_ConcurrentClosesFireOnce ==
    /\ nTransform <= 1 /\ nFlush <= 1
    /\ (initialized /\ connections # <<>>
          /\ \A i \in 1..Len(connections) : pc[i] = "done") => nTransform = 1

\* C22: update-only run: an ii_close returns without changing anything and
\* without running a hook, so no interface is ever completed; with at least one
\* registered interface a pi_close then neither runs the user close callback nor
\* closes the outputs.
C22_DryRunNeverCompletes ==
    [][update_only_mode =>
          /\ \A i \in Ifaces : ~completed'[i]
          /\ last'.op = "ii_close" =>
                 UNCHANGED ProgramState /\ last'.events = <<>> /\ last'.ret = "None"
          /\ (last'.op = "pi_close" /\ connections # <<>>) =>
                 UNCHANGED ProgramState /\ last'.events = <<>>
          /\ connections' # <<>> => (nUserClose' = 0 /\ ~outputs_closed')]_vars

C22_Witness ==
    /\ update_only_mode /\ phase = "closed" /\ last.op = "pi_close"
    /\ Len(connections) = 2 /\ ii_initialized[1] /\ ii_initialized[2]
    /\ ~completed[1] /\ ~completed[2] /\ nUserClose = 0 /\ ~outputs_closed

\* C23: a pi_init that reached its callback returns the callback's value and
\* leaves plugin.initialized with the truth value of that same value; the noop
\* of a factory without a registered init callback returns None, so the plugin
\* is left uninitialized; no later call initializes it, and every ii_push_record
\* on the uninitialized plugin returns False without calling the strategy.
C23_InitStoresCallbackValue ==
    [][/\ (last'.op = "pi_init" /\ last'.ret # "raise") =>
              /\ initialized' = (last'.ret = "True")
              /\ last'.events \in {<<"noop">>, <<"user_init">>}
              /\ last'.events = <<"noop">> => (last'.ret = "None" /\ ~initialized')
       /\ (last'.op # "pi_init" /\ ~initialized) => ~initialized'
       /\ (nPushed' # nPushed /\ ~initialized) =>
              (last'.ret = "False" /\ last'.events = <<>> /\ records' = records)]_vars

C23_Witness ==
    /\ last.op = "pi_init" /\ last.events = <<"noop">> /\ last.ret = "None"
    /\ ~initialized /\ phase = "registering"

RECURSIVE Resident(_)
\* The number of records held in the buffers of interfaces 1..n.
Resident(n) == IF n = 0 THEN 0 ELSE Len(records[n]) + Resident(n - 1)

\* C21 as stated: stream mode, the ii_push_record calls of two interfaces
\* delivered concurrently, their statements interleaved: at most one record is
\* held in all the buffers of the node in every state, and every call of the user
\* transformation sees exactly the record of the push that made the call.
C21_ConcurrentSingleSlot ==
    /\ Resident(MaxInterfaces) <= 1
    /\ (last.op = "ii_push_record" /\ HasEvent("func")) =>
           seen = [EmptyBuffers EXCEPT
                      ![last.iface] = <<Rec(last.iface, nPushed[last.iface])>>]

====
